---- MODULE Spec2Model ----
(***************************************************************************)
(* UniversalStore (src/hooks/useNavigation.ts, components/Store/Store):    *)
(* a state snapshot, a listener registry and the synchronous notification  *)
(* passes of dispatch, batchUpdate and reset.                              *)
(*                                                                         *)
(* Every public method of the store is one action: the store is            *)
(* single-threaded and a call runs to completion, listener callbacks       *)
(* included.  What the callbacks did during the last call is recorded in   *)
(* `calls` (one entry per invocation, with the snapshot getState() gave    *)
(* the callback), and the call itself in `lastOp`.                         *)
(***************************************************************************)
EXTENDS Integers, Sequences, FiniteSets, TLC

\* ------------------------------------------------------------------------
\* Bounds
\* ------------------------------------------------------------------------
MaxVal == 1            \* field values are 0..MaxVal
MaxNum == 2            \* listener identities (StoreListener.num) are 1..MaxNum
MaxBatch == 2          \* number of keys of a batchUpdate partial snapshot

Values == 0..MaxVal
Nums == 1..MaxNum

\* ------------------------------------------------------------------------
\* Field names.  Fields are the keys of config.initialState; UnknownKey is
\* a name that is not a key of the initial state (dispatch and batchUpdate
\* take any string / any object).
\* ------------------------------------------------------------------------
Fields == {"auth", "token"}
UnknownKey == "ghost"
AllKeys == Fields \cup {UnknownKey}

\* config.initialState
initialState == [k \in Fields |-> 0]

\* Listener callbacks (StoreListener.func).  A callback either returns or
\* throws; Throwing is the set of those that throw when invoked.
Callbacks == {"cb", "boom"}
Throwing == {"boom"}

\* marks, in the histories, a field that has no dispatched value (not in Values)
NoValue == 0 - 1

VARIABLES
    state,         \* UniversalStore.state: the snapshot, a function key -> value
    listeners,     \* UniversalStore.listeners: sequence of [num, type, func]
    calls,         \* the callback invocations of the last call, in order
    lastOp,        \* the last call: its arguments, how it ended, what it returned
    dispatched,    \* history: key -> value of its most recent dispatch (NoValue: none)
    dispatchOnly,  \* history: no batchUpdate and no reset has been called so far
    released,      \* history: [num, type] of the records that unsubscribe removed
                   \* and whose num has not been subscribed again
    regOrder,      \* history: the registered identities, in the order of their
                   \* first subscribe since they were last unsubscribed
    config,        \* UniversalStore.config.initialState of the store the hooks use
    bindings,      \* the hook instances (useStore / useStoreField), by component
    inFlight,      \* the notification pass in progress, callback by callback
    heap,          \* the snapshot objects: object identity -> its fields
    stateId,       \* the identity of the object UniversalStore.state refers to
    held,          \* the identities of the objects getState() gave to callers
    pending,       \* the login() calls that await the answer of the server
    quiet,         \* a second store, built with enableLogging off
    console,       \* what the last call wrote with console.group / console.log
    cache,         \* useNavigation: the selectedState of its three useStore calls
    view,          \* useNavigation: the values its callbacks captured at the last render
    heldInternal   \* useNavigation: the internalNavigation captured by the
                   \* resetSectionNavigation that navigateToSection holds

storeVars == <<state, listeners, calls, lastOp, dispatched, dispatchOnly, released,
               regOrder>>

bridgeVars == <<config, bindings, inFlight>>

\* object identity is followed in SpecOwnership only
heapVars == <<heap, stateId, held>>

\* the login calls in progress are followed in SpecLogin only
loginVars == <<pending>>

\* the store without logging and the console are followed in SpecLogging only
logVars == <<quiet, console>>

\* the navigation hook is followed in SpecNav only
navVars == <<cache, view, heldInternal>>

vars == <<storeVars, bridgeVars, heapVars, loginVars, logVars, navVars>>

\* ------------------------------------------------------------------------
\* Helpers
\* ------------------------------------------------------------------------
\* Object.keys(updates): the keys of a partial snapshot in insertion order
Keys(updates) == [i \in 1..Len(updates) |-> updates[i].key]

KeySet(updates) == {updates[i].key : i \in 1..Len(updates)}

\* updates[key] for a key of the partial snapshot
ValueOf(updates, key) ==
    LET i == CHOOSE j \in 1..Len(updates) : updates[j].key = key
    IN  updates[i].value

\* The partial snapshots a caller can pass to batchUpdate: an object has
\* each key once; its keys are iterated in insertion order.
BatchInputs ==
    {u \in UNION {[1..n -> [key : AllKeys, value : Values]] : n \in 0..MaxBatch} :
        \A i, j \in 1..Len(u) : i # j => u[i].key # u[j].key}

\* l.num of every record of the registry
NumsOf(ls) == {ls[i].num : i \in 1..Len(ls)}

\* listeners.findIndex(l => l.num === num): 0 stands for -1 (sequences
\* are 1-based)
FindIndex(ls, num) ==
    IF num \in NumsOf(ls)
    THEN CHOOSE i \in 1..Len(ls) :
            ls[i].num = num /\ \A j \in 1..(i - 1) : ls[j].num # num
    ELSE 0

\* One invocation of listener.func(): what is invoked, the snapshot that
\* getState() returns to the callback, and whether the callback throws.
Invoke(l, st) ==
    [num |-> l.num, type |-> l.type, func |-> l.func, seen |-> st,
     threw |-> l.func \in Throwing]

\* ------------------------------------------------------------------------
\* The store's methods as functions of the fields they read
\* ------------------------------------------------------------------------
\* Variant of DispatchWrite without the hasOwnProperty guard.
DispatchWrite_NoGuard(st, type, data) ==
    [k \in (DOMAIN st) \cup {type} |-> IF k = type THEN data ELSE st[k]]

\* dispatch, the state write: hasOwnProperty guards the replacement
DispatchWrite(st, type, data) ==
    IF type \in DOMAIN st THEN [st EXCEPT ![type] = data] ELSE st

\* batchUpdate, the state write: { ...this.state, ...updates }
BatchWrite(st, updates) ==
    LET ks == KeySet(updates)
    IN  [k \in (DOMAIN st) \cup ks |->
            IF k \in ks THEN ValueOf(updates, k) ELSE st[k]]

\* Variant of Upsert that always pushes.
Upsert_Push(ls, listener) == Append(ls, listener)

\* Variant of Upsert that keeps the record already registered under the num.
Upsert_KeepFirst(ls, listener) ==
    IF FindIndex(ls, listener.num) >= 1 THEN ls ELSE Append(ls, listener)

\* Variant of Upsert that moves a record registered again to the end.
Upsert_MoveToEnd(ls, listener) ==
    LET Other(l) == l.num # listener.num
    IN  Append(SelectSeq(ls, Other), listener)

\* subscribe: replace in place the record with the same num, else push
Upsert(ls, listener) ==
    LET existingIndex == FindIndex(ls, listener.num)
    IN  IF existingIndex >= 1
        THEN [ls EXCEPT ![existingIndex] = listener]
        ELSE Append(ls, listener)

\* Variant of Remove that also drops what follows the removed record.
Remove_AndRest(ls, listenerId) ==
    IF FindIndex(ls, listenerId) >= 1
    THEN SubSeq(ls, 1, FindIndex(ls, listenerId) - 1)
    ELSE ls

\* Variant of Remove that filters nothing out.
Remove_Nothing(ls, listenerId) == ls

\* unsubscribe: listeners.filter(l => l.num !== listenerId)
Remove(ls, listenerId) ==
    LET Keep(l) == l.num # listenerId
    IN  SelectSeq(ls, Keep)

\* forEach over a list of listeners with no try/catch around the callback:
\* the first callback that throws ends the loop and the exception leaves it.
RECURSIVE ForEachUncaught(_, _)
ForEachUncaught(ls, st) ==
    IF ls = <<>> THEN [calls |-> <<>>, threw |-> FALSE]
    ELSE LET c == Invoke(Head(ls), st)
         IN  IF c.threw
             THEN [calls |-> <<c>>, threw |-> TRUE]
             ELSE LET rest == ForEachUncaught(Tail(ls), st)
                  IN  [calls |-> <<c>> \o rest.calls, threw |-> rest.threw]

\* Variant of ForEachCaught that walks the list from its end.
ForEachCaught_Reverse(ls, st) ==
    [calls |-> [i \in 1..Len(ls) |-> Invoke(ls[Len(ls) + 1 - i], st)],
     threw |-> FALSE]

\* Variant of ForEachCaught without the try/catch around the callback.
ForEachCaught_NoTry(ls, st) == ForEachUncaught(ls, st)

\* forEach with try { listener.func() } catch { console.error }: every
\* listener of the list is invoked and nothing leaves the loop.
ForEachCaught(ls, st) ==
    [calls |-> [i \in 1..Len(ls) |-> Invoke(ls[i], st)], threw |-> FALSE]

\* Variant of notifyListeners without the filter on the watched field.
notifyListeners_NoFilter(ls, actionType, st) == ForEachCaught(ls, st)

\* notifyListeners(actionType): filter by type, then the caught forEach
notifyListeners(ls, actionType, st) ==
    LET Match(l) == l.type = actionType
    IN  ForEachCaught(SelectSeq(ls, Match), st)

\* Variant of NotifyKeys that makes one pass over the registry for all keys.
NotifyKeys_RegistryOrder(ls, keys, st) ==
    LET Match(l) == \E i \in 1..Len(keys) : keys[i] = l.type
    IN  ForEachCaught(SelectSeq(ls, Match), st)

\* Object.keys(updates).forEach(key => this.notifyListeners(key))
RECURSIVE NotifyKeys(_, _, _)
NotifyKeys(ls, keys, st) ==
    IF keys = <<>> THEN [calls |-> <<>>, threw |-> FALSE]
    ELSE LET first == notifyListeners(ls, Head(keys), st)
         IN  IF first.threw THEN first
             ELSE LET rest == NotifyKeys(ls, Tail(keys), st)
                  IN  [calls |-> first.calls \o rest.calls, threw |-> rest.threw]

\* Variant of BatchRun that writes and notifies key by key, as a sequence
\* of single-field updates would.
RECURSIVE BatchRun_KeyByKey(_, _, _)
BatchRun_KeyByKey(st, ls, updates) ==
    IF updates = <<>> THEN [state |-> st, calls |-> <<>>, threw |-> FALSE]
    ELSE LET newState == BatchWrite(st, <<Head(updates)>>)
             pass == notifyListeners(ls, Head(updates).key, newState)
             rest == BatchRun_KeyByKey(newState, ls, Tail(updates))
         IN  [state |-> rest.state, calls |-> pass.calls \o rest.calls,
              threw |-> rest.threw]

\* Variant of DispatchRun that notifies before it writes.
DispatchRun_NotifyFirst(st, ls, type, data) ==
    LET newState == DispatchWrite(st, type, data)
        pass == notifyListeners(ls, type, st)
    IN  [state |-> newState, calls |-> pass.calls, threw |-> pass.threw]

\* dispatch(action): write, then notifyListeners(action.type)
DispatchRun(st, ls, type, data) ==
    LET newState == DispatchWrite(st, type, data)
        pass == notifyListeners(ls, type, newState)
    IN  [state |-> newState, calls |-> pass.calls, threw |-> pass.threw]

\* batchUpdate(updates): one write of all keys, then one pass per key
BatchRun(st, ls, updates) ==
    LET newState == BatchWrite(st, updates)
        pass == NotifyKeys(ls, Keys(updates), newState)
    IN  [state |-> newState, calls |-> pass.calls, threw |-> pass.threw]

\* reset(): state = { ...initialState }, then listeners.forEach(l => l.func())
ResetRun(ls) ==
    LET newState == initialState
        pass == ForEachUncaught(ls, newState)
    IN  [state |-> newState, calls |-> pass.calls, threw |-> pass.threw]

Outcome(threw) == IF threw THEN "threw" ELSE "returned"

\* ------------------------------------------------------------------------
\* The components that use the hooks, and the pass record
\* ------------------------------------------------------------------------
\* Hook instances: one useStore or useStoreField call of a component each.
Bindings == {"b1", "b2"}

\* a hook instance whose component has not rendered yet
NoBinding ==
    [phase |-> "none", mode |-> "store", id |-> 0, sel |-> "", keys |-> <<>>,
     gen |-> 0, flag |-> FALSE, cache |-> NoValue, flips |-> 0, init |-> NoValue]

\* no store method is running
IdlePass == [op |-> "idle", keys |-> <<>>, queue |-> <<>>, alias |-> FALSE]

\* ------------------------------------------------------------------------
\* Initial state: new UniversalStore({ initialState })
\* ------------------------------------------------------------------------
Init ==
    /\ state = initialState
    /\ listeners = <<>>
    /\ calls = <<>>
    /\ lastOp = [op |-> "new", type |-> "", data |-> NoValue, updates |-> <<>>,
                 num |-> 0, func |-> "", outcome |-> "returned", ret |-> <<>>]
    /\ dispatched = [k \in AllKeys |-> NoValue]
    /\ dispatchOnly = TRUE
    /\ released = {}
    /\ regOrder = <<>>
    /\ config = initialState
    /\ bindings = [b \in Bindings |-> NoBinding]
    /\ inFlight = IdlePass
    /\ heap = <<initialState>>
    /\ stateId = 1
    /\ held = <<>>
    /\ pending = 0
    /\ quiet = [state |-> state, listeners |-> listeners, calls |-> <<>>,
                outcome |-> "returned"]
    /\ console = <<>>
    /\ cache = state
    /\ view = state
    /\ heldInternal = <<>>

\* ------------------------------------------------------------------------
\* Actions: one per public method
\* ------------------------------------------------------------------------
dispatch(type, data) ==
    LET r == DispatchRun(state, listeners, type, data)
    IN  /\ state' = r.state
        /\ calls' = r.calls
        /\ lastOp' = [op |-> "dispatch", type |-> type, data |-> data,
                      updates |-> <<>>, num |-> 0, func |-> "",
                      outcome |-> Outcome(r.threw),
                      ret |-> IF r.threw THEN <<>>
                              ELSE <<[type |-> type, data |-> data]>>]
        /\ dispatched' = IF dispatchOnly /\ type \in DOMAIN state
                         THEN [dispatched EXCEPT ![type] = data]
                         ELSE dispatched
        /\ UNCHANGED <<listeners, dispatchOnly, released, regOrder>>
        /\ UNCHANGED <<bridgeVars, heapVars, loginVars, logVars, navVars>>

batchUpdate(updates) ==
    LET r == BatchRun(state, listeners, updates)
    IN  /\ state' = r.state
        /\ calls' = r.calls
        /\ lastOp' = [op |-> "batchUpdate", type |-> "", data |-> NoValue,
                      updates |-> updates, num |-> 0, func |-> "",
                      outcome |-> Outcome(r.threw), ret |-> <<>>]
        /\ dispatched' = [k \in AllKeys |-> NoValue]
        /\ dispatchOnly' = FALSE
        /\ UNCHANGED <<listeners, released, regOrder>>
        /\ UNCHANGED <<bridgeVars, heapVars, loginVars, logVars, navVars>>

reset ==
    LET r == ResetRun(listeners)
    IN  /\ state' = r.state
        /\ calls' = r.calls
        /\ lastOp' = [op |-> "reset", type |-> "", data |-> NoValue,
                      updates |-> <<>>, num |-> 0, func |-> "",
                      outcome |-> Outcome(r.threw), ret |-> <<>>]
        /\ dispatched' = [k \in AllKeys |-> NoValue]
        /\ dispatchOnly' = FALSE
        /\ UNCHANGED <<listeners, released, regOrder>>
        /\ UNCHANGED <<bridgeVars, heapVars, loginVars, logVars, navVars>>

subscribe(num, type, func) ==
    /\ listeners' = Upsert(listeners, [num |-> num, type |-> type, func |-> func])
    /\ calls' = <<>>
    /\ lastOp' = [op |-> "subscribe", type |-> type, data |-> NoValue,
                  updates |-> <<>>, num |-> num, func |-> func,
                  outcome |-> "returned", ret |-> <<>>]
    /\ released' = {r \in released : r.num # num}
    /\ regOrder' = IF \E i \in 1..Len(regOrder) : regOrder[i] = num
                   THEN regOrder ELSE Append(regOrder, num)
    /\ UNCHANGED <<state, dispatched, dispatchOnly>>
    /\ UNCHANGED <<bridgeVars, heapVars, loginVars, logVars, navVars>>

\* Variant of unsubscribe that also puts the snapshot back to initialState.
unsubscribe_AndReset(listenerId) ==
    /\ listeners' = Remove(listeners, listenerId)
    /\ state' = initialState
    /\ calls' = <<>>
    /\ lastOp' = [op |-> "unsubscribe", type |-> "", data |-> NoValue,
                  updates |-> <<>>, num |-> listenerId, func |-> "",
                  outcome |-> "returned", ret |-> <<>>]
    /\ UNCHANGED <<dispatched, dispatchOnly, released, regOrder>>
    /\ UNCHANGED <<bridgeVars, heapVars, loginVars, logVars, navVars>>

unsubscribe(listenerId) ==
    /\ listeners' = Remove(listeners, listenerId)
    /\ calls' = <<>>
    /\ lastOp' = [op |-> "unsubscribe", type |-> "", data |-> NoValue,
                  updates |-> <<>>, num |-> listenerId, func |-> "",
                  outcome |-> "returned", ret |-> <<>>]
    /\ released' = released \cup
            {[num |-> listeners[i].num, type |-> listeners[i].type] :
                i \in {j \in 1..Len(listeners) : listeners[j].num = listenerId}}
    /\ regOrder' = LET Other(n) == n # listenerId IN SelectSeq(regOrder, Other)
    /\ UNCHANGED <<state, dispatched, dispatchOnly>>
    /\ UNCHANGED <<bridgeVars, heapVars, loginVars, logVars, navVars>>

Next ==
    \/ \E type \in AllKeys, data \in Values : dispatch(type, data)
    \/ \E updates \in BatchInputs : batchUpdate(updates)
    \/ reset
    \/ \E num \in Nums, type \in AllKeys, func \in Callbacks : subscribe(num, type, func)
    \/ \E listenerId \in Nums : unsubscribe(listenerId)

Spec == Init /\ [][Next]_vars

\* ------------------------------------------------------------------------
\* Reading the record of the last call
\* ------------------------------------------------------------------------
\* how many times the record registered under num was invoked in the last call
CallsOf(num) == Cardinality({i \in 1..Len(calls) : calls[i].num = num})

\* the invocations of the last call that ran the record l as it is registered
CallsOfRecord(l) ==
    Cardinality({i \in 1..Len(calls) :
        calls[i].num = l.num /\ calls[i].type = l.type /\ calls[i].func = l.func})

IsDispatch == lastOp.op = "dispatch"
IsBatch == lastOp.op = "batchUpdate"
IsReset == lastOp.op = "reset"

\* ------------------------------------------------------------------------
\* Claims
\* ------------------------------------------------------------------------

\* C1: after any sequence of dispatch calls (subscribe and unsubscribe may
\* come in between, batchUpdate and reset have not been called), getState()
\* is the initial state in which every recognized field that was dispatched
\* holds the value of its most recent dispatch and every other field its
\* initial value.
C1_DispatchFold ==
    dispatchOnly =>
        state = [k \in DOMAIN initialState |->
                    IF dispatched[k] # NoValue THEN dispatched[k]
                    ELSE initialState[k]]

\* C1 witness: auth was dispatched to a value other than its initial one,
\* token never was, and an unknown field was dispatched last.
C1_Witness ==
    /\ dispatchOnly
    /\ IsDispatch /\ lastOp.type = UnknownKey
    /\ dispatched["auth"] = 1 /\ dispatched["token"] = NoValue
    /\ state["auth"] = 1

\* C2: every listener invoked during a batchUpdate reads, for every key of
\* the partial snapshot, the value that the batch gives it; so does a
\* getState() after the call.
C2_BatchAtomic ==
    IsBatch =>
        \A j \in 1..Len(lastOp.updates) :
            LET k == lastOp.updates[j].key
                v == lastOp.updates[j].value
            IN  /\ k \in DOMAIN state /\ state[k] = v
                /\ \A i \in 1..Len(calls) :
                      k \in DOMAIN calls[i].seen /\ calls[i].seen[k] = v

\* C2 witness: batchUpdate({auth: 1, token: 1}) with a listener of auth
\* invoked first and a listener of token invoked after it.
C2_Witness ==
    /\ IsBatch
    /\ lastOp.updates = <<[key |-> "auth", value |-> 1], [key |-> "token", value |-> 1]>>
    /\ Len(calls) = 2
    /\ calls[1].type = "auth" /\ calls[2].type = "token"
    /\ calls[1].seen["token"] = 1

\* C3 (as claimed): the set of field names of the snapshot is the one of the
\* initial state in every reachable state.
C3_FieldSetFixed == DOMAIN state = DOMAIN initialState

\* C4 (as claimed): a dispatch of a name that is not a field of the snapshot
\* leaves the snapshot unchanged, invokes no listener and returns the action.
C4_UnknownDispatchSilent ==
    [][\A type \in AllKeys, data \in Values :
          (dispatch(type, data) /\ type \notin DOMAIN state) =>
              /\ state' = state
              /\ calls' = <<>>
              /\ lastOp'.ret = <<[type |-> type, data |-> data]>>]_vars

\* C5: a dispatch of f invokes every record registered for f exactly once,
\* and no dispatch or batchUpdate invokes a record that unsubscribe removed
\* and that has not been subscribed again.
C5_NoCallAfterUnsubscribe ==
    /\ IsDispatch =>
          \A i \in 1..Len(listeners) :
              listeners[i].type = lastOp.type => CallsOfRecord(listeners[i]) = 1
    /\ (IsDispatch \/ IsBatch) =>
          \A r \in released : CallsOf(r.num) = 0

\* C5 witness: a record watching f was unsubscribed, f is dispatched again
\* and another record watching f is invoked.
C5_Witness ==
    /\ IsDispatch
    /\ \E r \in released : r.type = lastOp.type
    /\ Len(calls) = 1

\* C6: after subscribe(num, type, func) there is one record with that num,
\* and it holds this last type and func; a dispatch invokes the record of
\* an identity at most once, with the func and type it holds now.
C6_ResubscribeReplaces ==
    /\ lastOp.op = "subscribe" =>
          /\ Cardinality({i \in 1..Len(listeners) : listeners[i].num = lastOp.num}) = 1
          /\ \A i \in 1..Len(listeners) :
                listeners[i].num = lastOp.num =>
                    listeners[i].type = lastOp.type /\ listeners[i].func = lastOp.func
    /\ IsDispatch =>
          /\ \A n \in Nums : CallsOf(n) <= 1
          /\ \A j \in 1..Len(listeners) :
                listeners[j].type = lastOp.type => CallsOfRecord(listeners[j]) = 1
          /\ \A i \in 1..Len(calls) :
                \E j \in 1..Len(listeners) :
                    /\ listeners[j].num = calls[i].num
                    /\ listeners[j].func = calls[i].func
                    /\ listeners[j].type = calls[i].type
                    /\ listeners[j].type = lastOp.type

\* C6 witness: subscribe with an identity that is registered already (it
\* is not the last record of the registry, where a new record would go).
C6_Witness ==
    /\ lastOp.op = "subscribe"
    /\ Len(listeners) = 2
    /\ listeners[1].num = lastOp.num
    /\ listeners[1].func = lastOp.func /\ listeners[1].type = lastOp.type

\* C7: no two records of the registry have the same identity.
C7_UniqueIdentity ==
    \A i, j \in 1..Len(listeners) :
        i # j => listeners[i].num # listeners[j].num

\* C7 witness: two records are registered, a subscribe was the last call.
C7_Witness ==
    /\ Len(listeners) = 2
    /\ lastOp.op = "subscribe"
    /\ listeners[2].num = lastOp.num

\* C8: a dispatch or batchUpdate returns normally, keeps its state write and
\* invokes every record that watches the dispatched field, or a key of the
\* partial snapshot, whether or not some callback threw.
C8_ThrowIsolated ==
    /\ IsDispatch =>
          /\ lastOp.outcome = "returned"
          /\ lastOp.type \in DOMAIN state => state[lastOp.type] = lastOp.data
          /\ \A i \in 1..Len(listeners) :
                listeners[i].type = lastOp.type => CallsOf(listeners[i].num) = 1
    /\ IsBatch =>
          /\ lastOp.outcome = "returned"
          /\ \A j \in 1..Len(lastOp.updates) :
                state[lastOp.updates[j].key] = lastOp.updates[j].value
          /\ \A i \in 1..Len(listeners) :
                listeners[i].type \in KeySet(lastOp.updates) =>
                    CallsOf(listeners[i].num) = 1

\* C8 witness: in a batchUpdate of two keys the listener of the first key
\* threw and the listener of the second key was invoked after it.
C8_Witness ==
    /\ IsBatch
    /\ Len(lastOp.updates) = 2
    /\ Len(calls) = 2
    /\ calls[1].threw /\ calls[1].type = lastOp.updates[1].key
    /\ calls[2].type = lastOp.updates[2].key

\* C9 (as claimed): reset() returns normally and invokes every registered
\* listener, also when a callback throws.
C9_ResetIsolatesThrow ==
    IsReset =>
        /\ lastOp.outcome = "returned"
        /\ \A i \in 1..Len(listeners) : CallsOf(listeners[i].num) >= 1

\* C10 (as claimed): after reset() the snapshot is the initial state and
\* every registered listener was invoked exactly once.
C10_ResetBroadcast ==
    IsReset =>
        /\ state = initialState
        /\ \A i \in 1..Len(listeners) : CallsOf(listeners[i].num) = 1

\* position of identity n in the history of registrations (0: not there)
RegPos(n) ==
    IF \E i \in 1..Len(regOrder) : regOrder[i] = n
    THEN CHOOSE i \in 1..Len(regOrder) : regOrder[i] = n
    ELSE 0

\* C11: a batchUpdate invokes every record whose watched field is a key of
\* the partial snapshot exactly once, and no record whose watched field is
\* not a key of it.
C11_BatchNotifiesKeys ==
    IsBatch =>
        \A i \in 1..Len(listeners) :
            IF listeners[i].type \in KeySet(lastOp.updates)
            THEN CallsOfRecord(listeners[i]) = 1 /\ CallsOf(listeners[i].num) = 1
            ELSE CallsOf(listeners[i].num) = 0

\* C11 witness: batchUpdate({auth: 1}) with one listener of auth and one of
\* token registered; only the listener of auth was invoked.
C11_Witness ==
    /\ IsBatch
    /\ Keys(lastOp.updates) = <<"auth">>
    /\ Len(listeners) = 2
    /\ listeners[1].type = "token" /\ listeners[2].type = "auth"
    /\ Len(calls) = 1 /\ calls[1].num = listeners[2].num

\* C12: in a batchUpdate every invocation for an earlier key of the partial
\* snapshot comes before every invocation for a later key.
C12_BatchKeyOrder ==
    IsBatch =>
        \A i, j \in 1..Len(lastOp.updates) :
            i < j =>
                \A a, b \in 1..Len(calls) :
                    (/\ calls[a].type = lastOp.updates[i].key
                     /\ calls[b].type = lastOp.updates[j].key) => a < b

\* C12 witness: the listener of token is registered before the listener of
\* auth, the batch lists auth before token, and the listener of auth ran
\* first.
C12_Witness ==
    /\ IsBatch
    /\ Keys(lastOp.updates) = <<"auth", "token">>
    /\ Len(listeners) = 2
    /\ listeners[1].type = "token" /\ listeners[2].type = "auth"
    /\ Len(calls) = 2
    /\ calls[1].num = listeners[2].num /\ calls[2].num = listeners[1].num

\* C13: within the pass for one field, of a dispatch or of one key of a
\* batchUpdate, an identity registered earlier is invoked before an identity
\* registered later.
C13_RegistrationOrder ==
    (IsDispatch \/ IsBatch) =>
        \A a, b \in 1..Len(calls) :
            (a < b /\ calls[a].type = calls[b].type) =>
                /\ RegPos(calls[a].num) >= 1
                /\ RegPos(calls[a].num) < RegPos(calls[b].num)

\* C13 witness: identity 2 was registered before identity 1, both watch the
\* dispatched field, and 2 was invoked first.
C13_Witness ==
    /\ IsDispatch
    /\ regOrder = <<2, 1>>
    /\ Len(calls) = 2
    /\ calls[1].num = 2 /\ calls[2].num = 1

\* ========================================================================
\* The hooks useStore and useStoreField on top of the store
\*
\* A component calls a hook on render; the hook's effect registers listener
\* records, its cleanup removes them.  The callbacks of these records call
\* the component's state setter, which makes React render the component
\* again, so that cleanups and effects can run between two callbacks of one
\* notification pass.  The pass is therefore taken callback by callback here:
\* a store method starts (the state write), `deliver` invokes the next
\* callback, `finish` returns from the method.  Here `calls` lists the
\* callbacks the running method has invoked so far and `lastOp` names the
\* method that ran last.
\* ========================================================================
MaxResub == 1          \* re-subscriptions (cleanup + effect) of one hook instance

\* the subscriptionId argument of each hook call: a literal at every call
\* site, consecutive numbers within one component (1001, 1002, ...)
IdOf(b) == IF b = "b1" THEN 1001 ELSE 1002

\* key.length
KeyLen(key) ==
    CASE key = "auth" -> 4
      [] key = "role" -> 4
      [] key = "name" -> 4
      [] key = "token" -> 5
      [] key = "ghost" -> 5
      [] key = "error" -> 5
      [] key = "id" -> 2
      [] key = "isLoading" -> 9
      [] key = "currentSection" -> 14
      [] key = "sectionHistory" -> 14
      [] key = "internalNavigation" -> 18

\* the order in which the fields are written in an initialState literal
KeyOrder == <<"auth", "id", "name", "token", "role", "isLoading", "error", "ghost",
              "currentSection", "sectionHistory", "internalNavigation">>

\* Object.keys(st)
ObjectKeys(st) ==
    LET Own(k) == k \in DOMAIN st
    IN  SelectSeq(KeyOrder, Own)

\* the initial states of the stores the hooks are used with
Configs == {[k \in {"auth", "token"} |-> 0], [k \in {"auth", "role"} |-> 0]}

\* selector(storeInstance.getState()) for the selectors state => state[sel],
\* and storeInstance.getStateSlice(sel)
Select(st, sel) == st[sel]

\* listeners.filter(l => l.type === actionType)
Matching(ls, actionType) ==
    LET Match(l) == l.type = actionType
    IN  SelectSeq(ls, Match)

\* stateKeys.forEach(key => subscribe({num: subscriptionId + key.length, ...}))
RECURSIVE SubscribeKeys(_, _, _, _)
SubscribeKeys(ls, keys, subscriptionId, func) ==
    IF keys = <<>> THEN ls
    ELSE SubscribeKeys(
            Upsert(ls, [num |-> subscriptionId + KeyLen(Head(keys)),
                        type |-> Head(keys), func |-> func]),
            Tail(keys), subscriptionId, func)

\* stateKeys.forEach(key => unsubscribe(subscriptionId + key.length))
RECURSIVE UnsubscribeKeys(_, _, _)
UnsubscribeKeys(ls, keys, subscriptionId) ==
    IF keys = <<>> THEN ls
    ELSE UnsubscribeKeys(Remove(ls, subscriptionId + KeyLen(Head(keys))),
                         Tail(keys), subscriptionId)

\* the subscribe calls of an effect: one record per key of the snapshot for
\* useStore, one record under subscriptionId for useStoreField
Registration(ls, mode, subscriptionId, sel, keys, func) ==
    IF mode = "store"
    THEN SubscribeKeys(ls, keys, subscriptionId, func)
    ELSE Upsert(ls, [num |-> subscriptionId, type |-> sel, func |-> func])

\* Variant of Teardown that unsubscribes the base id only.
Teardown_BaseIdOnly(ls, binding) == Remove(ls, binding.id)

\* the unsubscribe calls of an effect's cleanup, with the subscriptionId and
\* the stateKeys its effect captured
Teardown(ls, binding) ==
    IF binding.mode = "store"
    THEN UnsubscribeKeys(ls, binding.keys, binding.id)
    ELSE Remove(ls, binding.id)

\* Variant of OnChange that does not look at isMountedRef.
OnChange_NoFlag(binding, sel, st) == [binding EXCEPT !.cache = Select(st, sel)]

\* the callback of a hook's record: if (isMountedRef.current) set the cached
\* value to what the selector of that registration gives now
OnChange(binding, sel, st) ==
    IF binding.flag THEN [binding EXCEPT !.cache = Select(st, sel)] ELSE binding

\* Variant of Released that leaves isMountedRef alone.
Released_KeepFlag(binding, phase) == [binding EXCEPT !.phase = phase]

\* the cleanup's isMountedRef.current = false; flips counts the times the
\* flag went from true to false; the value of the first render is kept
\* only while the first registration stands
Released(binding, phase) ==
    [binding EXCEPT !.phase = phase, !.flag = FALSE,
                    !.flips = IF binding.flag THEN @ + 1 ELSE @,
                    !.init = NoValue]

\* the first render: useState(selector(getState())) and useRef(true); the
\* effect of this render will see these arguments.  init keeps the value
\* the first render computed.
Rendered(binding, mode, subscriptionId, sel, st) ==
    [binding EXCEPT !.phase = "rendered", !.mode = mode, !.id = subscriptionId,
                    !.sel = sel, !.flag = TRUE, !.cache = Select(st, sel),
                    !.init = Select(st, sel)]

\* Variant of Installed that keeps the cached value of the render.
Installed_KeepCache(binding, mode, subscriptionId, sel, keys, st) ==
    [binding EXCEPT !.phase = "subscribed", !.mode = mode,
                    !.id = subscriptionId, !.sel = sel, !.keys = keys,
                    !.gen = @ + 1, !.flag = TRUE]

\* the effect body: isMountedRef.current = true, the cached value is
\* re-read, the captured arguments are those of this render
Installed(binding, mode, subscriptionId, sel, keys, st) ==
    [binding EXCEPT !.phase = "subscribed", !.mode = mode,
                    !.id = subscriptionId, !.sel = sel, !.keys = keys,
                    !.gen = @ + 1, !.flag = TRUE, !.cache = Select(st, sel)]

\* the partial snapshots passed to batchUpdate by the users of the hooks
BridgeBatchInputs ==
    {u \in BatchInputs : u # <<>> /\ KeySet(u) \subseteq DOMAIN config}

\* a commit (cleanups, then effects) happens when no store method runs or
\* after a callback of the running method called a state setter
CanCommit == inFlight.op = "idle" \/ Len(calls) >= 1

\* no commit is half-way: every cleanup that ran was followed by its effect
Committed == \A b \in Bindings : bindings[b].phase # "cleaned"

\* Variant of AfterSubscribe in which a running pass sees the registry as
\* it is now: the records it has not visited yet.
AfterSubscribe_Live(p, newListeners, visited) ==
    IF p.op = "idle" THEN p
    ELSE [p EXCEPT !.queue = SubSeq(newListeners, visited + 1, Len(newListeners))]

\* reset iterates this.listeners itself: as long as no unsubscribe has
\* replaced the array, a subscribe that replaces a record in place is seen
\* by the iteration; pushed records lie beyond the length forEach fixed
AfterSubscribe(p, newListeners, visited) ==
    IF p.alias
    THEN [p EXCEPT !.queue = SubSeq(newListeners, visited + 1, visited + Len(p.queue))]
    ELSE p

\* unsubscribe assigns a new array to this.listeners
AfterUnsubscribe(p) == [p EXCEPT !.alias = FALSE]

\* the next callback of the pass: when the list of the current key is
\* exhausted, notifyListeners of the next key filters the registry
RECURSIVE Advance(_, _, _)
Advance(queue, keys, ls) ==
    IF queue # <<>> \/ keys = <<>> THEN [queue |-> queue, keys |-> keys]
    ELSE Advance(Matching(ls, Head(keys)), Tail(keys), ls)

InitBridge ==
    /\ config \in Configs
    /\ state = config
    /\ listeners = <<>>
    /\ calls = <<>>
    /\ lastOp = [op |-> "new", type |-> "", data |-> NoValue, updates |-> <<>>,
                 num |-> 0, func |-> "", outcome |-> "returned", ret |-> <<>>]
    /\ dispatched = [k \in AllKeys |-> NoValue]
    /\ dispatchOnly = TRUE
    /\ released = {}
    /\ regOrder = <<>>
    /\ bindings = [b \in Bindings |-> NoBinding]
    /\ inFlight = IdlePass
    /\ heap = <<config>>
    /\ stateId = 1
    /\ held = <<>>
    /\ pending = 0
    /\ quiet = [state |-> state, listeners |-> listeners, calls |-> <<>>,
                outcome |-> "returned"]
    /\ console = <<>>
    /\ cache = state
    /\ view = state
    /\ heldInternal = <<>>

\* first render of a component: the hook is called, nothing is registered
render(b, mode, subscriptionId, sel) ==
    /\ bindings[b].phase = "none"
    /\ CanCommit
    /\ sel \in DOMAIN state
    /\ bindings' = [bindings EXCEPT ![b] =
                        Rendered(@, mode, subscriptionId, sel, state)]
    /\ UNCHANGED <<state, listeners, calls, lastOp, dispatched, dispatchOnly,
                   released, regOrder, config, inFlight>>
    /\ UNCHANGED <<heapVars, loginVars, logVars, navVars>>

\* the effect of the first render, with the arguments of that render
mount(b) ==
    /\ bindings[b].phase = "rendered"
    /\ CanCommit
    /\ LET mode == bindings[b].mode
           subscriptionId == bindings[b].id
           sel == bindings[b].sel
           keys == ObjectKeys(state)
           func == [b |-> b, gen |-> 1, sel |-> sel]
           newListeners == Registration(listeners, mode, subscriptionId, sel, keys, func)
       IN  /\ listeners' = newListeners
           /\ bindings' = [bindings EXCEPT ![b] =
                    Installed(@, mode, subscriptionId, sel, keys, state)]
           /\ inFlight' = AfterSubscribe(inFlight, newListeners, Len(calls))
    /\ UNCHANGED <<state, calls, lastOp, dispatched, dispatchOnly, released,
                   regOrder, config>>
    /\ UNCHANGED <<heapVars, loginVars, logVars, navVars>>

\* a dependency changed (selector, subscriptionId): the cleanup of the
\* previous effect run
cleanup(b) ==
    /\ bindings[b].phase = "subscribed"
    /\ bindings[b].gen <= MaxResub
    /\ CanCommit
    /\ listeners' = Teardown(listeners, bindings[b])
    /\ bindings' = [bindings EXCEPT ![b] = Released(@, "cleaned")]
    /\ inFlight' = AfterUnsubscribe(inFlight)
    /\ UNCHANGED <<state, calls, lastOp, dispatched, dispatchOnly, released,
                   regOrder, config>>
    /\ UNCHANGED <<heapVars, loginVars, logVars, navVars>>

\* ... and the effect run with the new dependencies
effect(b, subscriptionId, sel) ==
    /\ bindings[b].phase = "cleaned"
    /\ sel \in DOMAIN state
    /\ LET keys == ObjectKeys(state)
           func == [b |-> b, gen |-> bindings[b].gen + 1, sel |-> sel]
           newListeners == Registration(listeners, bindings[b].mode,
                                        subscriptionId, sel, keys, func)
       IN  /\ listeners' = newListeners
           /\ bindings' = [bindings EXCEPT ![b] =
                    Installed(@, bindings[b].mode, subscriptionId, sel, keys, state)]
           /\ inFlight' = AfterSubscribe(inFlight, newListeners, Len(calls))
    /\ UNCHANGED <<state, calls, lastOp, dispatched, dispatchOnly, released,
                   regOrder, config>>
    /\ UNCHANGED <<heapVars, loginVars, logVars, navVars>>

\* the component is removed: the cleanup of the last effect run
unmount(b) ==
    /\ bindings[b].phase = "subscribed"
    /\ CanCommit
    /\ listeners' = Teardown(listeners, bindings[b])
    /\ bindings' = [bindings EXCEPT ![b] = Released(@, "unmounted")]
    /\ inFlight' = AfterUnsubscribe(inFlight)
    /\ UNCHANGED <<state, calls, lastOp, dispatched, dispatchOnly, released,
                   regOrder, config>>
    /\ UNCHANGED <<heapVars, loginVars, logVars, navVars>>

\* dispatch(action) up to its call of notifyListeners
startDispatch(type, data) ==
    /\ inFlight.op = "idle" /\ Committed
    /\ type \in DOMAIN state
    /\ state' = DispatchWrite(state, type, data)
    /\ calls' = <<>>
    /\ inFlight' = [op |-> "dispatch", keys |-> <<type>>, queue |-> <<>>,
                    alias |-> FALSE]
    /\ lastOp' = [op |-> "dispatch", type |-> "", data |-> NoValue,
                  updates |-> <<>>, num |-> 0, func |-> "",
                  outcome |-> "running", ret |-> <<>>]
    /\ UNCHANGED <<listeners, dispatched, dispatchOnly, released, regOrder,
                   config, bindings>>
    /\ UNCHANGED <<heapVars, loginVars, logVars, navVars>>

\* batchUpdate(updates) up to its first call of notifyListeners
startBatchUpdate(updates) ==
    /\ inFlight.op = "idle" /\ Committed
    /\ state' = BatchWrite(state, updates)
    /\ calls' = <<>>
    /\ inFlight' = [op |-> "batchUpdate", keys |-> Keys(updates), queue |-> <<>>,
                    alias |-> FALSE]
    /\ lastOp' = [op |-> "batchUpdate", type |-> "", data |-> NoValue,
                  updates |-> <<>>, num |-> 0, func |-> "",
                  outcome |-> "running", ret |-> <<>>]
    /\ UNCHANGED <<listeners, dispatched, dispatchOnly, released, regOrder,
                   config, bindings>>
    /\ UNCHANGED <<heapVars, loginVars, logVars, navVars>>

\* reset() up to its forEach over this.listeners
startReset ==
    /\ inFlight.op = "idle" /\ Committed
    /\ state' = config
    /\ calls' = <<>>
    /\ inFlight' = [op |-> "reset", keys |-> <<>>, queue |-> listeners,
                    alias |-> TRUE]
    /\ lastOp' = [op |-> "reset", type |-> "", data |-> NoValue,
                  updates |-> <<>>, num |-> 0, func |-> "",
                  outcome |-> "running", ret |-> <<>>]
    /\ UNCHANGED <<listeners, dispatched, dispatchOnly, released, regOrder,
                   config, bindings>>
    /\ UNCHANGED <<heapVars, loginVars, logVars, navVars>>

\* the running method invokes its next callback
deliver ==
    /\ inFlight.op # "idle" /\ Committed
    /\ LET adv == Advance(inFlight.queue, inFlight.keys, listeners)
       IN  /\ adv.queue # <<>>
           /\ LET l == Head(adv.queue)
              IN  /\ calls' = Append(calls,
                        [num |-> l.num, type |-> l.type, func |-> l.func,
                         ran |-> bindings[l.func.b].flag])
                  /\ bindings' = [bindings EXCEPT ![l.func.b] =
                                    OnChange(@, l.func.sel, state)]
           /\ inFlight' = [inFlight EXCEPT !.queue = Tail(adv.queue),
                                           !.keys = adv.keys]
    /\ UNCHANGED <<state, listeners, lastOp, dispatched, dispatchOnly, released,
                   regOrder, config>>
    /\ UNCHANGED <<heapVars, loginVars, logVars, navVars>>

\* no callback is left: the running method returns
finish ==
    /\ inFlight.op # "idle" /\ Committed
    /\ Advance(inFlight.queue, inFlight.keys, listeners).queue = <<>>
    /\ inFlight' = IdlePass
    /\ lastOp' = [lastOp EXCEPT !.outcome = "returned"]
    /\ calls' = <<>>
    /\ UNCHANGED <<state, listeners, dispatched, dispatchOnly, released,
                   regOrder, config, bindings>>
    /\ UNCHANGED <<heapVars, loginVars, logVars, navVars>>

NextBridge ==
    \/ \E b \in Bindings, mode \in {"store", "field"}, sel \in AllKeys :
          render(b, mode, IdOf(b), sel)
    \/ \E b \in Bindings : mount(b)
    \/ \E b \in Bindings : cleanup(b)
    \/ \E b \in Bindings, sel \in AllKeys : effect(b, IdOf(b), sel)
    \/ \E b \in Bindings : unmount(b)
    \/ \E type \in AllKeys, data \in Values : startDispatch(type, data)
    \/ \E updates \in BridgeBatchInputs : startBatchUpdate(updates)
    \/ startReset
    \/ deliver
    \/ finish

SpecBridge == InitBridge /\ [][NextBridge]_vars

\* ------------------------------------------------------------------------
\* Reading the hooks
\* ------------------------------------------------------------------------
\* the hook instance is installed by useStore
IsWholeState(b) == bindings[b].phase = "subscribed" /\ bindings[b].mode = "store"

\* a dispatch or batchUpdate has returned and no store method runs
UpdateCompleted ==
    /\ inFlight.op = "idle"
    /\ Committed
    /\ lastOp.op \in {"dispatch", "batchUpdate"}
    /\ lastOp.outcome = "returned"

\* the records of the registry whose callback belongs to the hook instance
RecordsOf(b) == {i \in 1..Len(listeners) : listeners[i].func.b = b}

\* C14 (as claimed): while a useStore binding is mounted, after every
\* completed dispatch or batchUpdate of a recognized field its cached value
\* is selector(getState()), for every set of field names and with several
\* bindings of different base ids on the store.
C14_SelectorFresh ==
    UpdateCompleted =>
        \A b \in Bindings :
            IsWholeState(b) => bindings[b].cache = Select(state, bindings[b].sel)

\* C15 (as claimed): after a useStore binding has mounted on a store whose
\* snapshot has N fields, no other hook having registered anything, the
\* registry holds exactly N records, all of that binding, one watching each
\* field of the snapshot.
C15_OneRecordPerField ==
    \A b \in Bindings :
        (/\ IsWholeState(b)
         /\ \A o \in Bindings \ {b} : bindings[o].phase = "none") =>
            /\ Len(listeners) = Cardinality(DOMAIN state)
            /\ RecordsOf(b) = 1..Len(listeners)
            /\ \A k \in DOMAIN state :
                    Cardinality({i \in RecordsOf(b) : listeners[i].type = k}) = 1

\* the identities a useStore binding registers: subscriptionId + key.length
\* for every key of the snapshot its effect saw
IdentitiesOf(b) ==
    {bindings[b].id + KeyLen(bindings[b].keys[i]) : i \in 1..Len(bindings[b].keys)}

\* C16 (as claimed): two useStore bindings mounted at the same time on the
\* store with different base ids register disjoint identities, so that no
\* subscribe of one replaces a record of the other.
C16_DisjointIdentities ==
    \A b, o \in Bindings :
        (/\ b # o
         /\ IsWholeState(b) /\ IsWholeState(o)
         /\ bindings[b].id # bindings[o].id) =>
            IdentitiesOf(b) \cap IdentitiesOf(o) = {}

\* C17: after a binding (useStore or useStoreField) is unmounted, the
\* registry holds no record whose callback belongs to it.
C17_UnmountReleases ==
    \A b \in Bindings :
        bindings[b].phase = "unmounted" => RecordsOf(b) = {}

\* C17 witness: the useStore binding b1 re-subscribed once and was then
\* unmounted while the useStoreField binding b2 stays registered.
C17_Witness ==
    /\ bindings["b1"].phase = "unmounted"
    /\ bindings["b1"].mode = "store"
    /\ bindings["b1"].gen = 2
    /\ bindings["b2"].phase = "subscribed"
    /\ bindings["b2"].mode = "field"
    /\ RecordsOf("b2") # {}
    /\ RecordsOf("b1") = {}

\* C18: once a binding is unmounted, no step of a dispatch, batchUpdate or
\* reset changes its cached value, and every callback of the binding that
\* is still invoked (by a pass that was in progress at the unmount) finds
\* the liveness flag false.
C18_NoUpdateAfterUnmount ==
    [][\A b \in Bindings :
            bindings[b].phase = "unmounted" =>
                /\ bindings'[b].cache = bindings[b].cache
                /\ \A i \in (Len(calls) + 1)..Len(calls') :
                        calls'[i].func.b = b => ~calls'[i].ran]_vars

\* C18 witness: a batchUpdate changed the field b1 selects, b1 was unmounted
\* during the pass, one of its callbacks was invoked afterwards and its
\* cached value is not the one in the snapshot.
C18_Witness ==
    /\ inFlight.op = "batchUpdate"
    /\ bindings["b1"].phase = "unmounted"
    /\ \E i \in 1..Len(calls) : calls[i].func.b = "b1" /\ ~calls[i].ran
    /\ \E i \in 1..Len(calls) :
            /\ calls[i].func.b = "b1"
            /\ bindings["b1"].cache # Select(state, calls[i].func.sel)

TeardownBeforeInstall ==
    \A b \in Bindings :
        /\ bindings[b].phase = "cleaned" => RecordsOf(b) = {}
        /\ \A i \in RecordsOf(b) : listeners[i].func.gen = bindings[b].gen

\* the callbacks a store method has invoked for one binding are all of one
\* registration of it
OneRegistrationPerCall ==
    \A i, j \in 1..Len(calls) :
        calls[i].func.b = calls[j].func.b => calls[i].func.gen = calls[j].func.gen

C21_FreshAtRegistration ==
    [][\A b \in Bindings :
            (/\ bindings'[b].phase = "subscribed"
             /\ bindings'[b].gen # bindings[b].gen) =>
                bindings'[b].cache = Select(state', bindings'[b].sel)]_vars

\* C21 witness: a dispatch has invoked the callback of b2 only; b1, rendered
\* earlier, ran its first effect during this pass (its record for the field
\* is registered but is not part of the pass) and its cached value is not
\* the one its render had computed.
C21_Witness ==
    /\ inFlight.op = "dispatch"
    /\ Len(calls) = 1
    /\ calls[1].func.b = "b2"
    /\ bindings["b1"].phase = "subscribed"
    /\ bindings["b1"].gen = 1
    /\ \E i \in RecordsOf("b1") : listeners[i].type = calls[1].type
    /\ \A i \in 1..Len(inFlight.queue) : inFlight.queue[i].func.b # "b1"
    /\ bindings["b1"].init # bindings["b1"].cache
    /\ bindings["b1"].cache = Select(state, bindings["b1"].sel)

\* the hook instance is installed by useStoreField
IsSingleField(b) == bindings[b].phase = "subscribed" /\ bindings[b].mode = "field"

\* a dispatch, batchUpdate or reset has returned and no store method runs
CallCompleted ==
    /\ inFlight.op = "idle"
    /\ Committed
    /\ lastOp.op \in {"dispatch", "batchUpdate", "reset"}
    /\ lastOp.outcome = "returned"

\* no record of another hook instance is registered under the identity of b
IdentityUnshared(b) ==
    \A i \in 1..Len(listeners) :
        listeners[i].num = bindings[b].id => listeners[i].func.b = b

\* a mounted useStoreField binding has exactly one record, watching its
\* field under the supplied identity; an unmounted one has none
OneRecordWhileMounted ==
    \A b \in Bindings :
        /\ IsSingleField(b) =>
                \E i \in 1..Len(listeners) :
                    /\ RecordsOf(b) = {i}
                    /\ listeners[i].num = bindings[b].id
                    /\ listeners[i].type = bindings[b].sel
        /\ (bindings[b].phase = "unmounted" /\ bindings[b].mode = "field") =>
                RecordsOf(b) = {}

\* after a completed dispatch, batchUpdate or reset the cached value of a
\* mounted useStoreField binding whose identity nobody else uses is the
\* value of its field
FieldFresh ==
    CallCompleted =>
        \A b \in Bindings :
            (IsSingleField(b) /\ IdentityUnshared(b)) =>
                bindings[b].cache = Select(state, bindings[b].sel)

MaxObj == 4            \* objects made in one behaviour

\* { ...obj }: a new object with the fields of obj
Spread(h, obj) == Append(h, obj)

\* Variant of GetStateRun that hands out the store's own object.
GetStateRun_Alias(h, id) == [heap |-> h, ret |-> id]

\* getState(): return { ...this.state }
GetStateRun(h, id) ==
    LET newHeap == Spread(h, h[id])
    IN  [heap |-> newHeap, ret |-> Len(newHeap)]

\* getStateSlice(key): return this.state[key]
getStateSlice(key) == heap[stateId][key]

InitOwnership == Init

\* a caller calls getState() and keeps the result
getState ==
    /\ Len(heap) < MaxObj
    /\ LET r == GetStateRun(heap, stateId)
       IN  /\ heap' = r.heap
           /\ held' = Append(held, r.ret)
    /\ lastOp' = [lastOp EXCEPT !.op = "getState"]
    /\ UNCHANGED <<state, stateId, listeners, calls, dispatched, dispatchOnly,
                   released, regOrder, bridgeVars,
                   loginVars, logVars, navVars>>

\* a caller assigns snapshot[key] = value on an object it got from getState()
assign(i, key, value) ==
    /\ i \in 1..Len(held)
    /\ key \in DOMAIN heap[held[i]]
    /\ heap' = [heap EXCEPT ![held[i]][key] = value]
    /\ state' = heap'[stateId]
    /\ lastOp' = [lastOp EXCEPT !.op = "assign"]
    /\ UNCHANGED <<stateId, held, listeners, calls, dispatched, dispatchOnly,
                   released, regOrder, bridgeVars,
                   loginVars, logVars, navVars>>

\* dispatch(action) on the store: the write makes a new object when the
\* field is recognized
ownDispatch(type, data) ==
    /\ Len(heap) < MaxObj
    /\ LET r == DispatchRun(heap[stateId], listeners, type, data)
       IN  /\ heap' = IF type \in DOMAIN heap[stateId]
                      THEN Spread(heap, r.state) ELSE heap
           /\ stateId' = IF type \in DOMAIN heap[stateId]
                         THEN Len(heap) + 1 ELSE stateId
           /\ state' = r.state
           /\ calls' = r.calls
    /\ lastOp' = [lastOp EXCEPT !.op = "dispatch"]
    /\ UNCHANGED <<held, listeners, dispatched, dispatchOnly, released, regOrder,
                   bridgeVars, loginVars, logVars, navVars>>

\* batchUpdate(updates) on the store: the write makes a new object
ownBatchUpdate(updates) ==
    /\ Len(heap) < MaxObj
    /\ LET r == BatchRun(heap[stateId], listeners, updates)
       IN  /\ heap' = Spread(heap, r.state)
           /\ stateId' = Len(heap) + 1
           /\ state' = r.state
           /\ calls' = r.calls
    /\ lastOp' = [lastOp EXCEPT !.op = "batchUpdate"]
    /\ UNCHANGED <<held, listeners, dispatched, dispatchOnly, released, regOrder,
                   bridgeVars, loginVars, logVars, navVars>>

\* reset() on the store: a new object with the fields of the initial state
ownReset ==
    /\ Len(heap) < MaxObj
    /\ LET r == ResetRun(listeners)
       IN  /\ heap' = Spread(heap, r.state)
           /\ stateId' = Len(heap) + 1
           /\ state' = r.state
           /\ calls' = r.calls
    /\ lastOp' = [lastOp EXCEPT !.op = "reset"]
    /\ UNCHANGED <<held, listeners, dispatched, dispatchOnly, released, regOrder,
                   bridgeVars, loginVars, logVars, navVars>>

NextOwnership ==
    \/ getState
    \/ \E i \in 1..MaxObj, key \in AllKeys, value \in Values : assign(i, key, value)
    \/ \E type \in AllKeys, data \in Values : ownDispatch(type, data)
    \/ \E updates \in BatchInputs : ownBatchUpdate(updates)
    \/ ownReset

SpecOwnership == InitOwnership /\ [][NextOwnership]_vars

\* C23: assigning a field of an object that getState() returned leaves what
\* getState() and getStateSlice() give afterwards unchanged, for that field
\* and for every other; and every getState() returns an object that is
\* neither the store's own nor one returned before.
C23_SnapshotIsCopy ==
    [][/\ (\E i \in 1..MaxObj, key \in AllKeys, value \in Values :
                assign(i, key, value)) =>
                /\ heap'[stateId'] = heap[stateId]
                /\ \A key \in DOMAIN heap[stateId] :
                        getStateSlice(key)' = getStateSlice(key)
       /\ getState =>
                /\ held'[Len(held')] # stateId'
                /\ \A i \in 1..Len(held) : held'[Len(held')] # held[i]]_vars

\* C23 witness: the caller holds two snapshots, assigned 1 to auth in the
\* first one, and the store and the second snapshot still hold 0.
C23_Witness ==
    /\ lastOp.op = "assign"
    /\ Len(held) = 2
    /\ heap[held[1]]["auth"] = 1
    /\ heap[held[2]]["auth"] = 0
    /\ heap[stateId]["auth"] = 0
    /\ state = heap[stateId]

\* ========================================================================
\* The registry alone, with room for three identities
\* ========================================================================
MaxReg == 3            \* listener identities are 1..MaxReg here

NextRegistry ==
    \/ \E num \in 1..MaxReg, type \in AllKeys, func \in Callbacks :
          subscribe(num, type, func)
    \/ \E listenerId \in 1..MaxReg : unsubscribe(listenerId)

SpecRegistry == Init /\ [][NextRegistry]_vars

\* ls without the elements at the positions of set drop, order kept
Without(ls, drop) ==
    LET keep == {i \in 1..Len(ls) : i \notin drop}
        Rank(i) == Cardinality({j \in keep : j <= i})
    IN  [n \in 1..Cardinality(keep) |-> ls[CHOOSE i \in keep : Rank(i) = n]]

\* C24: unsubscribe(identity) takes the one record with that identity out
\* of the registry and leaves every other record, and their order, as they
\* were; when no record has the identity, registry and snapshot are
\* unchanged; it never throws.
C24_UnsubscribeFrame ==
    [][\A listenerId \in 1..MaxReg :
            unsubscribe(listenerId) =>
                /\ state' = state
                /\ lastOp'.outcome = "returned"
                /\ IF listenerId \in NumsOf(listeners)
                   THEN /\ Len(listeners') = Len(listeners) - 1
                        /\ listeners' =
                             Without(listeners, {FindIndex(listeners, listenerId)})
                   ELSE listeners' = listeners]_vars

\* C24 witness: three records were registered, in the order 3, 1, 2, and
\* unsubscribe(1) took the middle one out.
C24_Witness ==
    /\ lastOp.op = "unsubscribe"
    /\ lastOp.num = 1
    /\ Len(listeners) = 2
    /\ listeners[1].num = 3 /\ listeners[2].num = 2
    /\ \E r \in released : r.num = 1

\* what a callback gets from getStateSlice(key) on the snapshot it sees;
\* NoValue stands for undefined
Read(st, key) == IF key \in DOMAIN st THEN st[key] ELSE NoValue

\* every callback the last dispatch invoked read the dispatched value in the
\* dispatched field, and every record watching the field was invoked before
\* the dispatch returned
WriteBeforeNotify ==
    /\ \A i \in 1..Len(calls) : Read(calls[i].seen, lastOp.type) = lastOp.data
    /\ lastOp.outcome = "returned"
    /\ \A i \in 1..Len(listeners) :
            listeners[i].type = lastOp.type => CallsOfRecord(listeners[i]) = 1

\* C25 (as claimed): within dispatch(f, v) the write precedes the
\* notification and the call runs to completion: every listener the dispatch
\* invokes reads v in f, and all listeners of f have been invoked when
\* dispatch returns.
C25_DispatchRunsToCompletion == IsDispatch => WriteBeforeNotify

\* the same for a recognized field f
C25_RecognizedOnly ==
    (IsDispatch /\ lastOp.type \in DOMAIN state) => WriteBeforeNotify

\* ========================================================================
\* useLogin over appStore
\*
\* false and null are 0, true is 1, the data of user u (id, fullName,
\* token, role of one answer of the server) are u, an error message is 1.
\* The registry is the one the six useStore calls of useLogin leave behind.
\* ========================================================================
MaxUser == 2           \* users the server knows: 1..MaxUser
MaxPending == 2        \* login() calls awaiting their answer at one time

LoginFields == {"auth", "id", "name", "token", "role", "isLoading", "error"}
UserFields == {"id", "name", "token", "role"}

\* appStore's initialState
loginInitialState == [k \in LoginFields |-> 0]

\* the subscriptionId arguments of useLogin's useStore calls
LoginIds == <<1001, 1002, 1003, 1004, 1005, 1006>>

\* the registry after the effects of useLogin's useStore calls have run, in
\* the order of the calls
RECURSIVE MountAll(_, _, _)
MountAll(ls, ids, st) ==
    IF ids = <<>> THEN ls
    ELSE MountAll(SubscribeKeys(ls, ObjectKeys(st), Head(ids), "cb"), Tail(ids), st)

\* Variant of DispatchAll that writes all fields with one batchUpdate.
DispatchAll_Batch(st, ls, actions) ==
    LET updates == [i \in 1..Len(actions) |->
                        [key |-> actions[i].type, value |-> actions[i].data]]
        r == BatchRun(st, ls, updates)
    IN  [state |-> r.state, calls |-> r.calls]

\* a sequence of dispatch calls, one after the other
RECURSIVE DispatchAll(_, _, _)
DispatchAll(st, ls, actions) ==
    IF actions = <<>> THEN [state |-> st, calls |-> <<>>]
    ELSE LET r == DispatchRun(st, ls, Head(actions).type, Head(actions).data)
             rest == DispatchAll(r.state, ls, Tail(actions))
         IN  [state |-> rest.state, calls |-> r.calls \o rest.calls]

\* login, after a successful answer with the data of user u
LoginSuccess(u) ==
    << [type |-> "auth", data |-> 1], [type |-> "id", data |-> u],
       [type |-> "name", data |-> u], [type |-> "token", data |-> u],
       [type |-> "role", data |-> u], [type |-> "isLoading", data |-> 0],
       [type |-> "error", data |-> 0] >>

\* Variant of LoginRefused that leaves auth as it is.
LoginRefused_KeepAuth == << [type |-> "isLoading", data |-> 0] >>

\* login, after an answer that is not a success
LoginRefused ==
    << [type |-> "isLoading", data |-> 0], [type |-> "auth", data |-> 0] >>

\* login, in its catch block
LoginError ==
    << [type |-> "isLoading", data |-> 0], [type |-> "error", data |-> 1],
       [type |-> "auth", data |-> 0] >>

\* logout
Logout ==
    << [type |-> "auth", data |-> 0], [type |-> "id", data |-> 0],
       [type |-> "name", data |-> 0], [type |-> "token", data |-> 0],
       [type |-> "role", data |-> 0], [type |-> "error", data |-> 0] >>

InitLogin ==
    /\ config = loginInitialState
    /\ state = loginInitialState
    /\ listeners = MountAll(<<>>, LoginIds, loginInitialState)
    /\ calls = <<>>
    /\ lastOp = [op |-> "new", type |-> "", data |-> NoValue, updates |-> <<>>,
                 num |-> 0, func |-> "", outcome |-> "returned", ret |-> <<>>]
    /\ dispatched = [k \in AllKeys |-> NoValue]
    /\ dispatchOnly = TRUE
    /\ released = {}
    /\ regOrder = <<>>
    /\ bindings = [b \in Bindings |-> NoBinding]
    /\ inFlight = IdlePass
    /\ heap = <<loginInitialState>>
    /\ stateId = 1
    /\ held = <<>>
    /\ pending = 0
    /\ quiet = [state |-> state, listeners |-> listeners, calls |-> <<>>,
                outcome |-> "returned"]
    /\ console = <<>>
    /\ cache = state
    /\ view = state
    /\ heldInternal = <<>>

\* what every step of useLogin does with the dispatches it makes
Dispatches(op, data, actions) ==
    LET r == DispatchAll(state, listeners, actions)
    IN  /\ state' = r.state
        /\ calls' = r.calls
        /\ lastOp' = [lastOp EXCEPT !.op = op, !.data = data]
        /\ UNCHANGED <<listeners, dispatched, dispatchOnly, released, regOrder,
                       bridgeVars, heapVars, logVars, navVars>>

\* login(phone, password) up to its await
login ==
    /\ pending < MaxPending
    /\ pending' = pending + 1
    /\ Dispatches("login", NoValue, <<[type |-> "isLoading", data |-> 1]>>)

\* the server answered with the data of user u
loginSucceeded(u) ==
    /\ pending > 0
    /\ pending' = pending - 1
    /\ Dispatches("loginSucceeded", u, LoginSuccess(u))

\* the server answered without success
loginRefused ==
    /\ pending > 0
    /\ pending' = pending - 1
    /\ Dispatches("loginRefused", NoValue, LoginRefused)

\* apiCall threw
loginFailed ==
    /\ pending > 0
    /\ pending' = pending - 1
    /\ Dispatches("loginFailed", NoValue, LoginError)

logout ==
    /\ UNCHANGED pending
    /\ Dispatches("logout", NoValue, Logout)

NextLogin ==
    \/ login
    \/ \E u \in 1..MaxUser : loginSucceeded(u)
    \/ loginRefused
    \/ loginFailed
    \/ logout

SpecLogin == InitLogin /\ [][NextLogin]_vars

\* C26 (as claimed): on a successful login no listener of the login store
\* is invoked in a state where auth is true while id, name, token or role
\* does not hold the value of this login yet.
C26_LoginIsOneTransition ==
    lastOp.op = "loginSucceeded" =>
        \A i \in 1..Len(calls) :
            ~(/\ calls[i].seen["auth"] = 1
              /\ \E k \in UserFields : calls[i].seen[k] # lastOp.data)

\* ------------------------------------------------------------------------
\* C27: two sequential dispatches and one batchUpdate differ in what the
\* listeners see.  A dispatch of a recognized field a, the first of the
\* two, invokes every listener watching a, each in a state where a holds
\* the new value and every other field b still holds the value it had
\* before; a batchUpdate invokes no listener in a state where one of its
\* fields holds the new value and another one does not yet.
\* ------------------------------------------------------------------------
C27_SequentialVsBatch ==
    [][/\ (lastOp'.op = "dispatch" /\ lastOp'.type \in DOMAIN state) =>
            /\ Len(calls') = Len(Matching(listeners, lastOp'.type))
            /\ \A i \in 1..Len(calls') :
                  /\ calls'[i].type = lastOp'.type
                  /\ calls'[i].seen[lastOp'.type] = lastOp'.data
                  /\ \A b \in DOMAIN state \ {lastOp'.type} :
                        calls'[i].seen[b] = state'[b] /\ state'[b] = state[b]
       /\ lastOp'.op = "batchUpdate" =>
            \A i \in 1..Len(calls') :
                ~\E j, k \in 1..Len(lastOp'.updates) :
                    /\ Read(calls'[i].seen, lastOp'.updates[j].key)
                            = lastOp'.updates[j].value
                    /\ Read(calls'[i].seen, lastOp'.updates[k].key)
                            # lastOp'.updates[k].value]_vars

\* C27 witness: dispatch(auth, 1) on a store where token is 0 has invoked a
\* listener watching auth, which saw auth = 1 and token = 0; a dispatch of
\* token is the second of the two.
C27_Witness ==
    /\ IsDispatch /\ lastOp.type = "auth" /\ lastOp.data = 1
    /\ Len(calls) >= 1
    /\ calls[1].type = "auth"
    /\ calls[1].seen["auth"] = 1 /\ calls[1].seen["token"] = 0
    /\ \E i \in 1..Len(listeners) : listeners[i].type = "token"

\* ========================================================================
\* Diagnostic tracing: two stores built from the same initialState, the
\* one of the store variables with enableLogging on, `quiet` with
\* enableLogging off, that receive the same calls.
\* ========================================================================
\* console.group / console.log / console.groupEnd of dispatch
LogDispatch(oldState, newState, type, data) ==
    << [call |-> "group", label |-> "Store Action", value |-> type],
       [call |-> "log", label |-> "Previous:", value |-> Read(oldState, type)],
       [call |-> "log", label |-> "Action:", value |-> [type |-> type, data |-> data]],
       [call |-> "log", label |-> "Next:", value |-> Read(newState, type)],
       [call |-> "groupEnd", label |-> "", value |-> NoValue] >>

\* console.group / console.log / console.groupEnd of batchUpdate
LogBatch(updates, newState) ==
    << [call |-> "group", label |-> "Batch Update", value |-> NoValue],
       [call |-> "log", label |-> "Updates:", value |-> updates],
       [call |-> "log", label |-> "New State:", value |-> newState],
       [call |-> "groupEnd", label |-> "", value |-> NoValue] >>

\* Variant of DispatchLogged that notifies only when the value changed.
DispatchLogged_SkipEqual(st, ls, type, data, enableLogging) ==
    LET newState == DispatchWrite(st, type, data)
        pass == IF newState = st THEN [calls |-> <<>>, threw |-> FALSE]
                ELSE notifyListeners(ls, type, newState)
    IN  [state |-> newState, calls |-> pass.calls, threw |-> pass.threw,
         console |-> IF enableLogging
                     THEN LogDispatch(st, newState, type, data) ELSE <<>>]

\* Variant of DispatchLogged that returns after its logging block.
DispatchLogged_ReturnAfterLog(st, ls, type, data, enableLogging) ==
    LET newState == DispatchWrite(st, type, data)
        pass == IF enableLogging THEN [calls |-> <<>>, threw |-> FALSE]
                ELSE notifyListeners(ls, type, newState)
    IN  [state |-> newState, calls |-> pass.calls, threw |-> pass.threw,
         console |-> IF enableLogging
                     THEN LogDispatch(st, newState, type, data) ELSE <<>>]

\* dispatch(action) with its logging block: copy of the old state, write,
\* logging if enabled, notifyListeners
DispatchLogged(st, ls, type, data, enableLogging) ==
    LET oldState == st
        newState == DispatchWrite(st, type, data)
        out == IF enableLogging
               THEN LogDispatch(oldState, newState, type, data) ELSE <<>>
        pass == notifyListeners(ls, type, newState)
    IN  [state |-> newState, calls |-> pass.calls, threw |-> pass.threw,
         console |-> out]

\* batchUpdate(updates) with its logging block: write, one pass per key,
\* logging if enabled
BatchLogged(st, ls, updates, enableLogging) ==
    LET newState == BatchWrite(st, updates)
        pass == NotifyKeys(ls, Keys(updates), newState)
        out == IF enableLogging /\ ~pass.threw
               THEN LogBatch(updates, newState) ELSE <<>>
    IN  [state |-> newState, calls |-> pass.calls, threw |-> pass.threw,
         console |-> out]

\* the store without logging after a call
Quiet(st, ls, cs, threw) ==
    [state |-> st, listeners |-> ls, calls |-> cs, outcome |-> Outcome(threw)]

\* what a call on both stores leaves alone
LoggingFrame ==
    UNCHANGED <<dispatched, dispatchOnly, released, regOrder, bridgeVars,
                heapVars, loginVars, navVars>>

bothDispatch(type, data) ==
    LET r == DispatchLogged(state, listeners, type, data, TRUE)
        q == DispatchLogged(quiet.state, quiet.listeners, type, data, FALSE)
    IN  /\ state' = r.state
        /\ calls' = r.calls
        /\ console' = r.console
        /\ lastOp' = [lastOp EXCEPT !.op = "dispatch", !.outcome = Outcome(r.threw)]
        /\ quiet' = Quiet(q.state, quiet.listeners, q.calls, q.threw)
        /\ UNCHANGED listeners
        /\ LoggingFrame

bothBatchUpdate(updates) ==
    LET r == BatchLogged(state, listeners, updates, TRUE)
        q == BatchLogged(quiet.state, quiet.listeners, updates, FALSE)
    IN  /\ state' = r.state
        /\ calls' = r.calls
        /\ console' = r.console
        /\ lastOp' = [lastOp EXCEPT !.op = "batchUpdate",
                                    !.outcome = Outcome(r.threw)]
        /\ quiet' = Quiet(q.state, quiet.listeners, q.calls, q.threw)
        /\ UNCHANGED listeners
        /\ LoggingFrame

bothReset ==
    LET r == ResetRun(listeners)
        q == ResetRun(quiet.listeners)
    IN  /\ state' = r.state
        /\ calls' = r.calls
        /\ console' = <<>>
        /\ lastOp' = [lastOp EXCEPT !.op = "reset", !.outcome = Outcome(r.threw)]
        /\ quiet' = Quiet(q.state, quiet.listeners, q.calls, q.threw)
        /\ UNCHANGED listeners
        /\ LoggingFrame

bothSubscribe(num, type, func) ==
    LET listener == [num |-> num, type |-> type, func |-> func]
    IN  /\ listeners' = Upsert(listeners, listener)
        /\ calls' = <<>>
        /\ console' = <<>>
        /\ lastOp' = [lastOp EXCEPT !.op = "subscribe", !.outcome = "returned"]
        /\ quiet' = Quiet(quiet.state, Upsert(quiet.listeners, listener), <<>>, FALSE)
        /\ UNCHANGED state
        /\ LoggingFrame

bothUnsubscribe(listenerId) ==
    /\ listeners' = Remove(listeners, listenerId)
    /\ calls' = <<>>
    /\ console' = <<>>
    /\ lastOp' = [lastOp EXCEPT !.op = "unsubscribe", !.outcome = "returned"]
    /\ quiet' = Quiet(quiet.state, Remove(quiet.listeners, listenerId), <<>>, FALSE)
    /\ UNCHANGED state
    /\ LoggingFrame

NextLogging ==
    \/ \E type \in AllKeys, data \in Values : bothDispatch(type, data)
    \/ \E updates \in BatchInputs : bothBatchUpdate(updates)
    \/ bothReset
    \/ \E num \in Nums, type \in AllKeys, func \in Callbacks :
            bothSubscribe(num, type, func)
    \/ \E listenerId \in Nums : bothUnsubscribe(listenerId)

SpecLogging == Init /\ [][NextLogging]_vars

\* C28: after every call the store with enableLogging on and the store
\* with enableLogging off, which got the same calls, have the same
\* snapshot and the same registry, have invoked the same listeners in the
\* same order with the same state in view, and the call ended the same way.
C28_LoggingObservationOnly ==
    /\ quiet.state = state
    /\ quiet.listeners = listeners
    /\ quiet.calls = calls
    /\ quiet.outcome = lastOp.outcome

\* C28 witness: a dispatch that changed the snapshot, wrote to the console
\* of the logging store and invoked two listeners.
C28_Witness ==
    /\ lastOp.op = "dispatch"
    /\ Len(console) = 5
    /\ Len(calls) = 2
    /\ state["auth"] = 1
    /\ calls[1].type = "auth"
    /\ Len(quiet.calls) = 2

\* ------------------------------------------------------------------------
\* C29: the pass of dispatch or batchUpdate for a field works on the list
\* of matching listeners taken when it starts.  While callbacks of the
\* list are left, a step either invokes the first of them and leaves the
\* rest, or (a subscribe or unsubscribe made during the pass) leaves the
\* list and the invocations as they are; and the pass of the next field
\* starts from the listeners that match it at that moment.
\* ------------------------------------------------------------------------
Invoked(cs, l) ==
    /\ Len(cs) >= 1
    /\ cs[Len(cs)].num = l.num
    /\ cs[Len(cs)].type = l.type
    /\ cs[Len(cs)].func = l.func

C29_PassOnTakenList ==
    [][inFlight.op \in {"dispatch", "batchUpdate"} =>
        IF inFlight.queue # <<>>
        THEN \/ /\ Len(calls') = Len(calls) + 1
                /\ Invoked(calls', Head(inFlight.queue))
                /\ inFlight'.queue = Tail(inFlight.queue)
             \/ /\ calls' = calls
                /\ inFlight'.queue = inFlight.queue
        ELSE Len(calls') = Len(calls) + 1 =>
                LET taken == Advance(<<>>, inFlight.keys, listeners).queue
                IN  /\ taken # <<>>
                    /\ Invoked(calls', Head(taken))
                    /\ inFlight'.queue = Tail(taken)]_vars

\* C29 witness: a dispatch pass over two listeners of the same field.  The
\* first callback made its component re-subscribe: the record subscribed
\* during the pass watches the field and was not invoked.  The component of
\* the second listener was unmounted before its callback ran: the callback
\* was invoked all the same, with the mounted flag down.
C29_Witness ==
    /\ inFlight.op = "dispatch" /\ inFlight.queue = <<>>
    /\ Len(calls) = 2
    /\ calls[1].func.b = "b1" /\ calls[1].func.gen = 1
    /\ bindings["b1"].phase = "subscribed" /\ bindings["b1"].gen = 2
    /\ \E i \in 1..Len(listeners) :
          /\ listeners[i].type = calls[1].type
          /\ listeners[i].func.b = "b1" /\ listeners[i].func.gen = 2
    /\ calls[2].func.b = "b2" /\ ~calls[2].ran
    /\ bindings["b2"].phase = "unmounted"

\* ------------------------------------------------------------------------
\* C30 (as claimed): the cleanup of a whole-state binding (at its unmount
\* or before it re-subscribes) and the effect that re-subscribes it leave
\* in the registry every record whose callback belongs to another binding
\* that is mounted.
\* ------------------------------------------------------------------------
C30_RemovesOwnRecordsOnly ==
    [][\A b \in Bindings :
          (/\ bindings[b].mode = "store"
           /\ bindings[b].phase \in {"subscribed", "cleaned"}
           /\ bindings'[b] # bindings[b]
           /\ listeners' # listeners) =>
              \A i \in 1..Len(listeners) :
                  (/\ listeners[i].func.b # b
                   /\ bindings[listeners[i].func.b].phase = "subscribed") =>
                      \E j \in 1..Len(listeners') : listeners'[j] = listeners[i]]_vars

\* ------------------------------------------------------------------------
\* C31 (as claimed): in the login store, when no login() call awaits its
\* answer (logout has no await), auth is true iff token is non-null, and
\* id, name and role are non-null only when auth is true.
\* ------------------------------------------------------------------------
C31_AuthIffToken ==
    pending = 0 =>
        /\ (state["auth"] = 1) <=> (state["token"] # 0)
        /\ \A k \in {"id", "name", "role"} : state[k] # 0 => state["auth"] = 1

\* ------------------------------------------------------------------------
\* C32 (as claimed): whenever at least one login() call awaits the answer
\* of the server, isLoading is true in the store.
\* ------------------------------------------------------------------------
C32_LoadingWhilePending == pending > 0 => state["isLoading"] = 1

\* ------------------------------------------------------------------------
\* C33: a login() call whose request has completed leaves isLoading false;
\* auth is true after the success path and false after the refusal and the
\* error path.
\* ------------------------------------------------------------------------
C33_LoginEnds ==
    /\ lastOp.op = "loginSucceeded" =>
            state["isLoading"] = 0 /\ state["auth"] = 1
    /\ lastOp.op \in {"loginRefused", "loginFailed"} =>
            state["isLoading"] = 0 /\ state["auth"] = 0

\* C33 witness: a login was refused while a user was logged in; the call
\* has set auth to false and isLoading to false.
C33_Witness ==
    /\ lastOp.op = "loginRefused"
    /\ state["token"] = 1
    /\ state["auth"] = 0 /\ state["isLoading"] = 0
    /\ pending = 0

\* ========================================================================
\* The navigation hook: useNavigation on navigationStore.
\*
\* One component uses the hook.  The callbacks of the hook read the values
\* of the render that created them; an action is one call of a callback
\* together with the render that its state setters cause.  A callback
\* created by useCallback is replaced at a render only when one of its
\* dependencies changed.
\* ========================================================================
MaxHist == 3           \* entries of sectionHistory
MaxLevel == 2          \* levels below 'main' inside one section

Sections == {"Inbox", "Outbox"}
Levels == {"detail"}

\* navigationStore's initialState; internalNavigation is an object keyed
\* by section name
navInitialState ==
    [currentSection |-> "Inbox", sectionHistory |-> <<"Inbox">>,
     internalNavigation |-> <<>>]

\* the subscriptionId arguments and the selected fields of the three
\* useStore calls of useNavigation
NavIds == <<2001, 2002, 2003>>
NavSelected == <<"currentSection", "sectionHistory", "internalNavigation">>

\* the registry after the effects of the three useStore calls have run;
\* the callback of a record is named after the field its selector reads
RECURSIVE NavMount(_, _, _)
NavMount(ls, i, st) ==
    IF i > Len(NavIds) THEN ls
    ELSE NavMount(SubscribeKeys(ls, ObjectKeys(st), NavIds[i], NavSelected[i]),
                  i + 1, st)

\* the callbacks of useStore's records, in the order the store invoked
\* them: setSelectedState(selector(getState()))
RECURSIVE Refresh(_, _)
Refresh(c, cs) ==
    IF cs = <<>> THEN c
    ELSE Refresh([c EXCEPT ![Head(cs).func] = Head(cs).seen[Head(cs).func]],
                 Tail(cs))

\* { ...obj, [key]: value }
Put(obj, key, value) ==
    [k \in (DOMAIN obj) \cup {key} |-> IF k = key THEN value ELSE obj[k]]

\* the entry of a section that has none, and the entry a reset writes
MainNav ==
    [currentLevel |-> 0, levelHistory |-> <<"main">>, canGoBack |-> FALSE,
     data |-> NoValue]

\* getCurrentSectionNav()
getCurrentSectionNav(v) ==
    IF v.currentSection \in DOMAIN v.internalNavigation
    THEN v.internalNavigation[v.currentSection]
    ELSE MainNav

\* Math.max(0, n)
Max0(n) == IF n > 0 THEN n ELSE 0

\* newHistory.pop()
Pop(h) == SubSeq(h, 1, Len(h) - 1)

\* resetSectionNavigation(section) with the internalNavigation it captured
ResetSectionRun(internal, section) ==
    <<[type |-> "internalNavigation", data |-> Put(internal, section, MainNav)]>>

\* navigateToSection(section): the dispatches it makes
NavigateToSectionRun(v, internal, section) ==
    IF section = v.currentSection THEN <<>>
    ELSE << [type |-> "currentSection", data |-> section],
            [type |-> "sectionHistory", data |-> Append(v.sectionHistory, section)] >>
         \o ResetSectionRun(internal, section)

\* Variant of GoBackToSectionRun that does not dispatch currentSection.
GoBackToSectionRun_KeepCurrent(v) ==
    IF Len(v.sectionHistory) <= 1 THEN [actions |-> <<>>, ret |-> FALSE]
    ELSE [actions |-> <<[type |-> "sectionHistory", data |-> Pop(v.sectionHistory)]>>,
          ret |-> TRUE]

\* goBackToSection(): the dispatches it makes and what it returns
GoBackToSectionRun(v) ==
    IF Len(v.sectionHistory) <= 1 THEN [actions |-> <<>>, ret |-> FALSE]
    ELSE LET newHistory == Pop(v.sectionHistory)
             prevSection == newHistory[Len(newHistory)]
         IN  [actions |-> << [type |-> "currentSection", data |-> prevSection],
                             [type |-> "sectionHistory", data |-> newHistory] >>,
              ret |-> TRUE]

\* navigateInside(level, data)
NavigateInsideRun(v, level, data) ==
    LET currentNav == getCurrentSectionNav(v)
        newNav == [currentLevel |-> currentNav.currentLevel + 1,
                   levelHistory |-> Append(currentNav.levelHistory, level),
                   canGoBack |-> TRUE,
                   data |-> data]
    IN  <<[type |-> "internalNavigation",
           data |-> Put(v.internalNavigation, v.currentSection, newNav)]>>

\* Variant of GoBackInsideRun that leaves canGoBack as it was.
GoBackInsideRun_KeepFlag(v) ==
    LET currentNav == getCurrentSectionNav(v)
    IN  IF currentNav.currentLevel <= 0 THEN [actions |-> <<>>, ret |-> FALSE]
        ELSE [actions |-> <<[type |-> "internalNavigation",
                  data |-> Put(v.internalNavigation, v.currentSection,
                        [currentNav EXCEPT
                            !.currentLevel = Max0(currentNav.currentLevel - 1),
                            !.levelHistory = Pop(currentNav.levelHistory)])]>>,
              ret |-> TRUE]

\* goBackInside(): the dispatches it makes and what it returns
GoBackInsideRun(v) ==
    LET currentNav == getCurrentSectionNav(v)
    IN  IF currentNav.currentLevel <= 0 THEN [actions |-> <<>>, ret |-> FALSE]
        ELSE LET newHistory == Pop(currentNav.levelHistory)
                 newNav == [currentNav EXCEPT
                                !.currentLevel = Max0(currentNav.currentLevel - 1),
                                !.levelHistory = newHistory,
                                !.canGoBack = Len(newHistory) > 1]
             IN  [actions |-> <<[type |-> "internalNavigation",
                        data |-> Put(v.internalNavigation, v.currentSection, newNav)]>>,
                  ret |-> TRUE]

\* Variant of getBackType that looks at the section history first.
getBackType_GlobalFirst(v) ==
    IF Len(v.sectionHistory) > 1 THEN "global"
    ELSE IF getCurrentSectionNav(v).canGoBack
            /\ getCurrentSectionNav(v).currentLevel > 0 THEN "internal"
    ELSE "none"

\* getBackType()
getBackType(v) ==
    LET currentNav == getCurrentSectionNav(v)
    IN  IF currentNav.canGoBack /\ currentNav.currentLevel > 0 THEN "internal"
        ELSE IF Len(v.sectionHistory) > 1 THEN "global"
        ELSE "none"

\* canGoBack()
canGoBack(v) == getBackType(v) # "none"

\* goBack(); browserBack is what window.history.length > 1 gives, the
\* browser's history is no store state
GoBackRun(v, browserBack) ==
    CASE getBackType(v) = "internal" -> GoBackInsideRun(v)
      [] getBackType(v) = "global" -> GoBackToSectionRun(v)
      [] getBackType(v) = "none" -> [actions |-> <<>>, ret |-> browserBack]

\* the exported canNavigateBack(), on the snapshot of the store; an absent
\* entry makes the left operand of || undefined
canNavigateBack(st) ==
    LET has == st.currentSection \in DOMAIN st.internalNavigation
    IN  \/ /\ has
           /\ st.internalNavigation[st.currentSection].canGoBack
           /\ st.internalNavigation[st.currentSection].currentLevel > 0
        \/ Len(st.sectionHistory) > 1

InitNav ==
    /\ config = navInitialState
    /\ state = navInitialState
    /\ listeners = NavMount(<<>>, 1, navInitialState)
    /\ calls = <<>>
    /\ lastOp = [op |-> "new", type |-> "", data |-> NoValue, updates |-> <<>>,
                 num |-> 0, func |-> "", outcome |-> "returned", ret |-> <<>>]
    /\ dispatched = [k \in AllKeys |-> NoValue]
    /\ dispatchOnly = TRUE
    /\ released = {}
    /\ regOrder = <<>>
    /\ bindings = [b \in Bindings |-> NoBinding]
    /\ inFlight = IdlePass
    /\ heap = <<navInitialState>>
    /\ stateId = 1
    /\ held = <<>>
    /\ pending = 0
    /\ quiet = [state |-> state, listeners |-> listeners, calls |-> <<>>,
                outcome |-> "returned"]
    /\ console = <<>>
    /\ cache = navInitialState
    /\ view = navInitialState
    /\ heldInternal = navInitialState.internalNavigation

\* one call of a callback of the hook: its dispatches, the state setters
\* its notifications call, and the render that follows.  navigateToSection
\* depends on currentSection and sectionHistory only, so the
\* resetSectionNavigation it holds is replaced when one of the two changed.
NavStep(op, arg, actions, ret) ==
    LET r == DispatchAll(state, listeners, actions)
        selected == Refresh(cache, r.calls)
    IN  /\ state' = r.state
        /\ calls' = r.calls
        /\ cache' = selected
        /\ view' = selected
        /\ heldInternal' =
              IF \/ selected.currentSection # view.currentSection
                 \/ selected.sectionHistory # view.sectionHistory
              THEN selected.internalNavigation ELSE heldInternal
        /\ lastOp' = [lastOp EXCEPT !.op = op, !.type = arg, !.ret = ret]
        /\ UNCHANGED <<listeners, dispatched, dispatchOnly, released, regOrder,
                       bridgeVars, heapVars, loginVars, logVars>>

navigateToSection(section) ==
    /\ section = view.currentSection \/ Len(view.sectionHistory) < MaxHist
    /\ NavStep("navigateToSection", section,
               NavigateToSectionRun(view, heldInternal, section), <<>>)

goBackToSection ==
    NavStep("goBackToSection", "", GoBackToSectionRun(view).actions,
            <<GoBackToSectionRun(view).ret>>)

navigateInside(level, data) ==
    /\ getCurrentSectionNav(view).currentLevel < MaxLevel
    /\ NavStep("navigateInside", level, NavigateInsideRun(view, level, data), <<>>)

goBackInside ==
    NavStep("goBackInside", "", GoBackInsideRun(view).actions,
            <<GoBackInsideRun(view).ret>>)

resetSectionNavigation(section) ==
    NavStep("resetSectionNavigation", section,
            ResetSectionRun(view.internalNavigation, section), <<>>)

goBack(browserBack) ==
    NavStep("goBack", "", GoBackRun(view, browserBack).actions,
            <<GoBackRun(view, browserBack).ret>>)

NextNav ==
    \/ \E section \in Sections : navigateToSection(section)
    \/ goBackToSection
    \/ \E level \in Levels, data \in Values : navigateInside(level, data)
    \/ goBackInside
    \/ \E section \in Sections : resetSectionNavigation(section)
    \/ \E browserBack \in BOOLEAN : goBack(browserBack)

SpecNav == InitNav /\ [][NextNav]_vars

\* ------------------------------------------------------------------------
\* C34: in the navigation store sectionHistory is never empty and
\* currentSection is its last element; goBackToSection with one entry in
\* sectionHistory changes nothing, notifies nobody and returns false;
\* navigateToSection to the current section changes nothing and notifies
\* nobody.
\* ------------------------------------------------------------------------
CurrentIsLast ==
    /\ Len(state.sectionHistory) >= 1
    /\ state.currentSection = state.sectionHistory[Len(state.sectionHistory)]

C34_SectionHistory ==
    /\ []CurrentIsLast
    /\ [][/\ (lastOp'.op = "goBackToSection" /\ Len(state.sectionHistory) = 1) =>
                state' = state /\ calls' = <<>> /\ lastOp'.ret = <<FALSE>>
          /\ (lastOp'.op = "goBackToSection" /\ Len(state.sectionHistory) > 1) =>
                /\ lastOp'.ret = <<TRUE>>
                /\ state'.sectionHistory = Pop(state.sectionHistory)
          /\ (lastOp'.op = "navigateToSection"
                /\ lastOp'.type = state.currentSection) =>
                state' = state /\ calls' = <<>>
          /\ (lastOp'.op = "navigateToSection"
                /\ lastOp'.type # state.currentSection) =>
                state'.sectionHistory = Append(state.sectionHistory, lastOp'.type)]_vars

\* C34 witness: back in 'Inbox' after a visit of 'Outbox', goBackToSection
\* was called with one entry left and returned false.
C34_Witness ==
    /\ lastOp.op = "goBackToSection" /\ lastOp.ret = <<FALSE>>
    /\ state.sectionHistory = <<"Inbox">>
    /\ "Outbox" \in DOMAIN state.internalNavigation

\* ------------------------------------------------------------------------
\* C35: every entry of internalNavigation has currentLevel equal to the
\* length of levelHistory minus 1, a levelHistory that starts with 'main',
\* a currentLevel that is not negative, and canGoBack true exactly when
\* currentLevel is above 0.
\* ------------------------------------------------------------------------
C35_LevelsConsistent ==
    \A section \in DOMAIN state.internalNavigation :
        LET nav == state.internalNavigation[section]
        IN  /\ nav.currentLevel = Len(nav.levelHistory) - 1
            /\ nav.currentLevel >= 0
            /\ nav.levelHistory[1] = "main"
            /\ nav.canGoBack <=> nav.currentLevel > 0

\* C35 witness: goBackInside took a section from its first level back to
\* 'main' while the other section is still two levels deep.
C35_Witness ==
    /\ lastOp.op = "goBackInside" /\ lastOp.ret = <<TRUE>>
    /\ DOMAIN state.internalNavigation = Sections
    /\ state.internalNavigation[state.currentSection].currentLevel = 0
    /\ \E section \in Sections :
          state.internalNavigation[section].currentLevel = MaxLevel

\* ------------------------------------------------------------------------
\* C39: goBack() takes the internal step when the current section is above
\* level 0, the step between sections only when the section is at level 0
\* and sectionHistory has more than one entry, and changes no store state
\* otherwise; the hook's canGoBack() / getBackType() and the exported
\* canNavigateBack() agree on whether a back step exists.
\* ------------------------------------------------------------------------
BackStepsAgree == canGoBack(view) <=> canNavigateBack(state)

C39_GoBack ==
    /\ []BackStepsAgree
    /\ [][lastOp'.op = "goBack" =>
            LET nav == getCurrentSectionNav(state)
            IN  IF nav.currentLevel > 0
                THEN /\ getCurrentSectionNav(state').currentLevel = nav.currentLevel - 1
                     /\ state'.sectionHistory = state.sectionHistory
                     /\ state'.currentSection = state.currentSection
                     /\ lastOp'.ret = <<TRUE>>
                ELSE IF Len(state.sectionHistory) > 1
                THEN /\ state'.sectionHistory = Pop(state.sectionHistory)
                     /\ state'.currentSection =
                            state.sectionHistory[Len(state.sectionHistory) - 1]
                     /\ state'.internalNavigation = state.internalNavigation
                     /\ lastOp'.ret = <<TRUE>>
                ELSE state' = state /\ calls' = <<>>]_vars

\* C39 witness: in a second section, one level deep, goBack() has taken the
\* internal step: the section is at 'main' again and still the current one.
C39_Witness ==
    /\ lastOp.op = "goBack" /\ lastOp.ret = <<TRUE>>
    /\ state.sectionHistory = <<"Inbox", "Outbox">>
    /\ "Outbox" \in DOMAIN state.internalNavigation
    /\ state.internalNavigation["Outbox"].currentLevel = 0
    /\ state.internalNavigation["Outbox"].data # NoValue

\* ------------------------------------------------------------------------
\* C36: dispatch and batchUpdate do not compare values.  A dispatch of a
\* recognized field with the value the field already has, and a key of a
\* batchUpdate whose value the field already has, invoke every listener
\* that watches the field exactly once.  The action and the updates of
\* the call are read from the console of the logging store.
\* ------------------------------------------------------------------------
InvokedOnce(cs, l) ==
    Cardinality({i \in 1..Len(cs) :
        cs[i].num = l.num /\ cs[i].type = l.type /\ cs[i].func = l.func}) = 1

C36_NotifiesEqualValue ==
    [][/\ lastOp'.op = "dispatch" =>
            LET action == console'[3].value
            IN  (/\ action.type \in DOMAIN state
                 /\ state[action.type] = action.data) =>
                    \A i \in 1..Len(listeners) :
                        listeners[i].type = action.type =>
                            InvokedOnce(calls', listeners[i])
       /\ lastOp'.op = "batchUpdate" =>
            LET updates == console'[2].value
            IN  \A j \in 1..Len(updates) :
                    (/\ updates[j].key \in DOMAIN state
                     /\ state[updates[j].key] = updates[j].value) =>
                        \A i \in 1..Len(listeners) :
                            listeners[i].type = updates[j].key =>
                                InvokedOnce(calls', listeners[i])]_vars

\* C36 witness: the console of the logging store shows a dispatch whose
\* previous and next value are both 1; two listeners were invoked.
C36_Witness ==
    /\ lastOp.op = "dispatch"
    /\ Len(console) = 5
    /\ console[2].value = 1 /\ console[4].value = 1
    /\ Len(calls) = 2
    /\ calls[1].num # calls[2].num

\* ------------------------------------------------------------------------
\* C37: a subscribe of an identity that is registered replaces its record
\* where it stands and moves no record; a subscribe of an identity that is
\* not registered (never, or not since its unsubscribe) puts the record at
\* the end; a dispatch invokes the records it invokes in the order of the
\* registry, with the callbacks they hold now.
\* ------------------------------------------------------------------------
PassInRegistryOrder ==
    IsDispatch =>
        \A a, b \in 1..Len(calls) :
            a < b => /\ FindIndex(listeners, calls[a].num) >= 1
                     /\ FindIndex(listeners, calls[a].num)
                            < FindIndex(listeners, calls[b].num)
                     /\ listeners[FindIndex(listeners, calls[a].num)].func
                            = calls[a].func

C37_ResubscribeKeepsPlace ==
    /\ []PassInRegistryOrder
    /\ [][lastOp'.op = "subscribe" =>
            LET record == [num |-> lastOp'.num, type |-> lastOp'.type,
                           func |-> lastOp'.func]
            IN  IF lastOp'.num \in NumsOf(listeners)
                THEN /\ Len(listeners') = Len(listeners)
                     /\ \A i \in 1..Len(listeners) :
                           listeners'[i] = IF listeners[i].num = lastOp'.num
                                           THEN record ELSE listeners[i]
                ELSE listeners' = Append(listeners, record)]_vars

\* C37 witness: identity 1 was registered before identity 2 and has just
\* been subscribed again with another callback: it is still the first
\* record.
C37_Witness ==
    /\ lastOp.op = "subscribe" /\ lastOp.num = 1 /\ lastOp.func = "boom"
    /\ regOrder = <<1, 2>>
    /\ Len(listeners) = 2
    /\ listeners[1] = [num |-> 1, type |-> lastOp.type, func |-> "boom"]
    /\ listeners[2].num = 2 /\ listeners[2].func = "cb"
    /\ listeners[2].type = lastOp.type

\* ------------------------------------------------------------------------
\* C38: subscribe and unsubscribe leave the snapshot as it is; dispatch,
\* batchUpdate and reset leave the registry as it is (the callbacks of the
\* records call neither subscribe nor unsubscribe).
\* ------------------------------------------------------------------------
C38_DisjointEffects ==
    [][/\ lastOp'.op \in {"subscribe", "unsubscribe"} => state' = state
       /\ lastOp'.op \in {"dispatch", "batchUpdate", "reset"} =>
            listeners' = listeners]_vars

\* C38 witness: an unsubscribe on a store whose snapshot has been changed
\* and extended and whose registry still holds a record.
C38_Witness ==
    /\ lastOp.op = "unsubscribe"
    /\ state["auth"] = 1
    /\ UnknownKey \in DOMAIN state
    /\ Len(listeners) = 1
    /\ released # {}

====
